---- MODULE Spec2Model ----
(***************************************************************************)
(* Model of contrib/plugins/armcov.c: the per-vcpu instruction record of   *)
(* the bl/blr/msr-ttbr0 tracer, its registry (cpus, num_cpus, cpus_lock),  *)
(* the instruction callback, vcpu_init and plugin_exit.                    *)
(*                                                                         *)
(* A GString is a sequence of pieces of text, in the order appended:       *)
(*   CoreTok(c)   the "%u, " cpu_index that starts a record                *)
(*   CtxTok(n)    the "0x<vaddr>, 0x<insn>, " part of udata, written as    *)
(*                the ordinal n of the executed instruction on its core    *)
(*                (its place in the core's retirement order)               *)
(*   a word       one space-separated word of the disassembly              *)
(*   NameTok(r)   ", <name> -> 0x" appended by read_register               *)
(*   hex text     the "%02x" bytes appended by read_register               *)
(*   NL           "\n"                                                     *)
(***************************************************************************)
EXTENDS Integers, Sequences, FiniteSets, TLC

\* ---------------------------------------------------------------- bounds
MaxCore == 1        \* vcpu indices are 0..MaxCore
MaxInsns == 3       \* interesting instructions executed over the whole run

Cores == 0..MaxCore

\* size in bytes qemu_plugin_read_register reports for an aarch64 register
RegSize == 8

\* ---------------------------------------------------------------- tokens
NL == "\n"
CoreToks == [c \in Cores |-> ToString(c) \o ", "]
CoreTok(c) == CoreToks[c]
CtxToks == [n \in 1..MaxInsns |-> "insn#" \o ToString(n) \o ", "]
CtxTok(n) == CtxToks[n]
NameTok(name) == ", " \o name \o " -> 0x"

\* disassembly texts the translation scanner lets through (prefix "bl" or
\* prefix "msr ttbr0"), as their space-separated words
DisasSet ==
    { <<"bl", "#0x4005c0">>,
      <<"blr", "x3">>,
      <<"msr", "ttbr0_el1,", "x0">> }

\* register lists qemu_plugin_get_registers may hand back (names, in order)
RegLists ==
    { << >>,
      <<"x3">>,
      <<"x3", "TTBR0_EL1">> }

\* what qemu_plugin_read_register returns for a descriptor that was just
\* resolved: the register's size
ReadResults == {RegSize}

\* value held by the general register a blr names
XVal == 4195776

VARIABLES
    cpus,       \* the array: sequence of [insn_rec, index]; slot i is cpus[i+1]
    num_cpus,   \* static int num_cpus
    online,     \* cores whose vcpu_init has run (engine state)
    pc,         \* per core: "idle" or "held" (between get_cpu and its use)
    stale,      \* per core: the held CPU* points into a freed block
    ttbr,       \* per core: contents of TTBR0_EL1
    hist,       \* per core: disassembly of the instructions executed so far
    outs,       \* everything passed to qemu_plugin_outs, in order
    looks,      \* per core: the get_reg_desc calls made, in order, each
                \* with the ordinal (at) of the callback that made it
    halted,     \* the process died
    exited,     \* plugin_exit has run
    inst,       \* qemu_plugin_install: the options left to parse (args),
                \* whether it has returned and what (phase, ret), the
                \* callbacks registered (reg), fmt_bin, and whether argv
                \* held a malformed option (bad)
    reads       \* the qemu_plugin_read_register calls of the renderer runs
                \* of SpecRender: [name, value, size]

vars == <<cpus, num_cpus, online, pc, stale, ttbr, hist, outs, looks,
          halted, exited, inst, reads>>

\* ------------------------------------------------------- string helpers
\* g_strstr_len(str, -1, needle) for the needles the callback uses: the
\* needle occurs inside one of the pieces (only disassembly words can hold
\* "msr" or "bl": the other pieces are numbers, ", <NAME> -> 0x" and "\n")
Contains(word, needle) ==
    CASE needle = "msr" -> word = "msr"
      [] needle = "blr" -> word = "blr"
      [] needle = "bl"  -> word \in {"bl", "blr"}
      [] OTHER -> FALSE

Strstr(str, needle) ==
    \E i \in 1..Len(str) : Contains(str[i], needle)

\* g_strstr (first space) in place of g_strrstr: the text after the first
\* space of the record
TokenAfterFirstSpace(str) == str[2]

\* g_strrstr(str, " ") + 1: the text after the last space of the record
LastToken(str) == str[Len(str)]

\* g_pattern_spec_match_string for a pattern without wildcards
PatternMatch(pat, name) == pat = name

\* ------------------------------------------------------- get_reg_desc
\* index into reg_list of the first descriptor matching the pattern, 0 = NULL
get_reg_desc(reg_list, reg_pat) ==
    IF \E i \in 1..Len(reg_list) : PatternMatch(reg_pat, reg_list[i])
    THEN CHOOSE i \in 1..Len(reg_list) :
            /\ PatternMatch(reg_pat, reg_list[i])
            /\ \A j \in 1..(i-1) : ~PatternMatch(reg_pat, reg_list[j])
    ELSE 0

\* ------------------------------------------------------- read_register
RECURSIVE Shr8(_, _)
Shr8(v, k) == IF k = 0 THEN v ELSE Shr8(v \div 256, k - 1)

\* reg_buf->data after a successful read: the value in storage order
RegBytes(v) == [i \in 1..RegSize |-> Shr8(v, i - 1) % 256]

\* "%02x" of one byte
HexDigit == <<"0", "1", "2", "3", "4", "5", "6", "7",
              "8", "9", "a", "b", "c", "d", "e", "f">>
\* "%x" of one byte: no zero padding
Hex1(b) ==
    IF b < 16 THEN HexDigit[b + 1]
    ELSE HexDigit[(b \div 16) + 1] \o HexDigit[(b % 16) + 1]

Hex2(b) == HexDigit[(b \div 16) + 1] \o HexDigit[(b % 16) + 1]

\* the loop of lines 101-103: for (i = regsize-1; i >= 0; i--), the text
\* it appends
RECURSIVE HexLoop(_, _)
HexLoop(data, i) ==
    IF i < 0 THEN ""
    ELSE Hex2(data[i + 1]) \o HexLoop(data, i - 1)

read_register(name, value, regsize, record) ==
    record \o <<NameTok(name), HexLoop(RegBytes(value), regsize - 1), NL>>

\* ------------------------------------------------- vcpu_insn_exec_cb
\* ordinal of the instruction a record was seeded for (0: empty record)
RecOrd(str) ==
    IF Len(str) >= 2
    THEN CHOOSE n \in 1..MaxInsns : str[2] = CtxTok(n)
    ELSE 0

\* the core a record was seeded for
RecCore(str) == CHOOSE c \in Cores : str[1] = CoreTok(c)

\* one get_reg_desc call: the record it was made for (n), the pattern, and
\* whether a descriptor came back
Look(str, pat, found) == [n |-> RecOrd(str), pat |-> pat, found |-> found]

\* line 129 with the wrong needle: "bl" in place of "msr"
PendingIsBl(insn_rec) == Len(insn_rec) > 0 /\ Strstr(insn_rec, "bl")

\* line 129: the pending record is non-empty and mentions msr
PendingIsMsr(insn_rec) == Len(insn_rec) > 0 /\ Strstr(insn_rec, "msr")

\* Step1 without the qemu_plugin_outs call of line 144: the resolved
\* record is overwritten unseen
Step1Silent(insn_rec, reg_list, regsize, value) ==
    IF PendingIsMsr(insn_rec)
    THEN LET desc == get_reg_desc(reg_list, "TTBR0_EL1") IN
         IF desc = 0
         THEN [ret |-> TRUE, rec |-> insn_rec, out |-> << >>,
               look |-> <<Look(insn_rec, "TTBR0_EL1", FALSE)>>]
         ELSE [ret |-> FALSE,
               rec |-> read_register(reg_list[desc], value, regsize, insn_rec),
               out |-> << >>,
               look |-> <<Look(insn_rec, "TTBR0_EL1", TRUE)>>]
    ELSE [ret |-> FALSE, rec |-> insn_rec, out |-> << >>, look |-> << >>]

\* lines 129-145: resolve the pending msr record.  ret = TRUE is the early
\* return of line 139.
Step1(insn_rec, reg_list, regsize, value) ==
    IF PendingIsMsr(insn_rec)
    THEN LET desc == get_reg_desc(reg_list, "TTBR0_EL1") IN
         IF desc = 0
         THEN [ret |-> TRUE, rec |-> insn_rec, out |-> << >>,
               look |-> <<Look(insn_rec, "TTBR0_EL1", FALSE)>>]
         ELSE LET r == read_register(reg_list[desc], value, regsize, insn_rec)
              IN [ret |-> FALSE, rec |-> r, out |-> <<r>>,
                  look |-> <<Look(insn_rec, "TTBR0_EL1", TRUE)>>]
    ELSE [ret |-> FALSE, rec |-> insn_rec, out |-> << >>, look |-> << >>]

\* lines 151-152: g_string_printf("%u, ") then append udata
Step2(cpu_index, n, disas) ==
    <<CoreTok(cpu_index), CtxTok(n)>> \o disas

\* Step3 with the test of line 183 dropped: whatever is not a blr is
\* printed at once, an msr too
Step3PrintsAll(insn_rec, reg_list, regsize, value) ==
    IF Len(insn_rec) > 0 /\ Strstr(insn_rec, "blr")
    THEN LET blr_reg == LastToken(insn_rec)
             desc == get_reg_desc(reg_list, blr_reg)
         IN IF desc = 0
            THEN [rec |-> insn_rec, out |-> << >>,
                  look |-> <<Look(insn_rec, blr_reg, FALSE)>>]
            ELSE LET r == read_register(reg_list[desc], value, regsize, insn_rec)
                 IN [rec |-> r, out |-> <<r>>,
                     look |-> <<Look(insn_rec, blr_reg, TRUE)>>]
    ELSE LET r == insn_rec \o <<NL>>
         IN [rec |-> r, out |-> <<r>>, look |-> << >>]

\* lines 160-187: blr is looked up and printed now, bl is printed now
Step3(insn_rec, reg_list, regsize, value) ==
    IF Len(insn_rec) > 0 /\ Strstr(insn_rec, "blr")
    THEN LET blr_reg == LastToken(insn_rec)
             desc == get_reg_desc(reg_list, blr_reg)
         IN IF desc = 0
            THEN [rec |-> insn_rec, out |-> << >>,
                  look |-> <<Look(insn_rec, blr_reg, FALSE)>>]
            ELSE LET r == read_register(reg_list[desc], value, regsize, insn_rec)
                 IN [rec |-> r, out |-> <<r>>,
                     look |-> <<Look(insn_rec, blr_reg, TRUE)>>]
    ELSE IF Len(insn_rec) > 0 /\ Strstr(insn_rec, "bl")
    THEN LET r == insn_rec \o <<NL>>
         IN [rec |-> r, out |-> <<r>>, look |-> << >>]
    ELSE [rec |-> insn_rec, out |-> << >>, look |-> << >>]

\* what the callback leaves behind when it ran through step 3: the
\* record, the strings printed and the lookups made, in program order
Through(s1, s3) ==
    [rec |-> s3.rec, out |-> s1.out \o s3.out, look |-> s1.look \o s3.look]

\* the callback body after step 1 (s1): line 139 returns, or steps 2 and 3
AfterStep1(s1, cpu_index, n, disas, rl3, rs3, xv) ==
    IF s1.ret
    THEN [rec |-> s1.rec, out |-> s1.out, look |-> s1.look]
    ELSE Through(s1, Step3(Step2(cpu_index, n, disas), rl3, rs3, xv))

\* the callback with the pending record printed after the new one
vcpu_insn_exec_cb_late(insn_rec, cpu_index, n, disas, rl1, rs1, tt, rl3, rs3, xv) ==
    LET r == AfterStep1(Step1(insn_rec, rl1, rs1, tt), cpu_index, n, disas,
                        rl3, rs3, xv)
    IN IF Len(r.out) = 2
       THEN [r EXCEPT !.out = <<r.out[2], r.out[1]>>]
       ELSE r

\* the whole callback body on the record the CPU* points at
vcpu_insn_exec_cb(insn_rec, cpu_index, n, disas, rl1, rs1, tt, rl3, rs3, xv) ==
    AfterStep1(Step1(insn_rec, rl1, rs1, tt), cpu_index, n, disas,
               rl3, rs3, xv)

\* ------------------------------------------------------------ helpers
RECURSIVE SumLen(_, _)
SumLen(f, S) ==
    IF S = {} THEN 0
    ELSE LET c == CHOOSE x \in S : TRUE IN Len(f[c]) + SumLen(f, S \ {c})

\* instructions whose callback has started
Started == SumLen(hist, Cores) + Cardinality({c \in Cores : pc[c] = "held"})

\* a string handed to qemu_plugin_outs, with who handed it over:
\* by = "cb" (the callback of instruction `at` on `core`) or "exit"
Out(str, by, core, at) == [str |-> str, by |-> by, core |-> core, at |-> at]

\* the callbacks qemu_plugin_install registers (lines 313-315)
AllCallbacks == {"vcpu_init", "vcpu_tb_trans", "atexit"}

\* qemu_plugin_install has returned 0 for an empty argv
Installed ==
    [args |-> << >>, phase |-> "returned", ret |-> 0, reg |-> AllCallbacks,
     fmt_bin |-> FALSE, bad |-> FALSE]

\* ---------------------------------------------------------------- Init
Init ==
    /\ cpus = << >>
    /\ num_cpus = 0
    /\ online = {}
    /\ pc = [c \in Cores |-> "idle"]
    /\ stale = [c \in Cores |-> FALSE]
    /\ ttbr = [c \in Cores |-> 0]
    /\ hist = [c \in Cores |-> << >>]
    /\ outs = << >>
    /\ looks = [c \in Cores |-> << >>]
    /\ halted = FALSE
    /\ exited = FALSE
    /\ inst = Installed
    /\ reads = << >>

Running == ~halted /\ ~exited

\* ------------------------------------------------------------ vcpu_init
\* NewSlots without line 259: insn_rec is whatever g_realloc_n left there
NewSlotsUnset(count, vcpu_index) ==
    [k \in 1..(vcpu_index + 1 - count) |->
        [insn_rec |-> <<"?">>, index |-> vcpu_index]]

\* lines 255-261: the slots added for vcpu_index, all tagged vcpu_index
NewSlots(count, vcpu_index) ==
    [k \in 1..(vcpu_index + 1 - count) |->
        [insn_rec |-> << >>, index |-> vcpu_index]]

\* g_realloc_n may hand back the same block or move it (moved)
VcpuInit(vcpu_index, moved) ==
    /\ Running
    /\ vcpu_index \notin online
    /\ online' = online \cup {vcpu_index}
    /\ IF vcpu_index >= num_cpus
       THEN /\ cpus' = cpus \o NewSlots(num_cpus, vcpu_index)
            /\ num_cpus' = vcpu_index + 1
            /\ stale' = [c \in Cores |-> stale[c] \/ (moved /\ pc[c] = "held")]
       ELSE /\ ~moved
            /\ UNCHANGED <<cpus, num_cpus, stale>>
    /\ UNCHANGED <<pc, ttbr, hist, outs, looks, halted, exited, inst, reads>>

\* -------------------------------------------------------------- get_cpu
\* line 117 (lines 40-52): the engine calls the callback of an instruction
\* of an online core; the lock is dropped before the pointer is used
GetCpu(c) ==
    /\ Running
    /\ c \in online
    /\ pc[c] = "idle"
    /\ Started < MaxInsns
    /\ IF c < num_cpus
       THEN /\ pc' = [pc EXCEPT ![c] = "held"]
            /\ stale' = [stale EXCEPT ![c] = FALSE]
            /\ UNCHANGED halted
       ELSE /\ halted' = TRUE      \* g_assert(index < num_cpus)
            /\ UNCHANGED <<pc, stale>>
    /\ UNCHANGED <<cpus, num_cpus, online, ttbr, hist, outs, looks, exited,
                   inst, reads>>

\* Finish storing the record in the slot named by the index field of the
\* slot get_cpu returned (cpus[cpu->index]) in place of that slot itself
FinishByTag(c, n, udata, r) ==
    /\ cpus' = [cpus EXCEPT ![cpus[c + 1].index + 1].insn_rec = r.rec]
    /\ outs' = outs \o [i \in 1..Len(r.out) |-> Out(r.out[i], "cb", c, n)]
    /\ looks' = [looks EXCEPT ![c] = @ \o
                   [i \in 1..Len(r.look) |->
                       [at |-> n, n |-> r.look[i].n,
                        pat |-> r.look[i].pat, found |-> r.look[i].found]]]
    /\ hist' = [hist EXCEPT ![c] = Append(@, udata)]
    /\ ttbr' = [ttbr EXCEPT ![c] = IF udata[1] = "msr" THEN n ELSE @]

\* the effects of callback n of core c, whose body came to r, and of the
\* instruction (udata) that then executes: an msr writes TTBR0_EL1 (the
\* value written is taken to be n, new at every msr)
Finish(c, n, udata, r) ==
    /\ cpus' = [cpus EXCEPT ![c + 1].insn_rec = r.rec]
    /\ outs' = outs \o [i \in 1..Len(r.out) |-> Out(r.out[i], "cb", c, n)]
    /\ looks' = [looks EXCEPT ![c] = @ \o
                   [i \in 1..Len(r.look) |->
                       [at |-> n, n |-> r.look[i].n,
                        pat |-> r.look[i].pat, found |-> r.look[i].found]]]
    /\ hist' = [hist EXCEPT ![c] = Append(@, udata)]
    /\ ttbr' = [ttbr EXCEPT ![c] = IF udata[1] = "msr" THEN n ELSE @]

\* lines 129-187 on the held pointer, for the instruction whose
\* disassembly is udata (first used at line 152); then the instruction
\* itself retires.  Reading through a stale pointer is a use after free:
\* the old block may still hold the slot (the GString it names is the live
\* one), or the process dies.
InsnExec(c, udata, rl1, rs1, rl3, rs3, dies) ==
    /\ ~halted
    /\ pc[c] = "held"
    /\ dies => stale[c]
    /\ pc' = [pc EXCEPT ![c] = "idle"]
    /\ stale' = [stale EXCEPT ![c] = FALSE]
    /\ IF dies
       THEN /\ halted' = TRUE
            /\ UNCHANGED <<cpus, ttbr, hist, outs, looks>>
       ELSE /\ Finish(c, Len(hist[c]) + 1, udata,
                      vcpu_insn_exec_cb(cpus[c + 1].insn_rec, c,
                                        Len(hist[c]) + 1, udata, rl1, rs1,
                                        ttbr[c], rl3, rs3, XVal))
            /\ UNCHANGED halted
    /\ UNCHANGED <<num_cpus, online, exited, inst, reads>>

\* ---------------------------------------------------------- plugin_exit
\* line 274: if (cpus[i].insn_rec->str); a GString's str is never NULL
StrIsSet(insn_rec) == TRUE

\* ExitFlush without the g_string_append of line 275
ExitFlushNoNewline(insn_rec) == insn_rec

\* lines 275-276 for one slot
ExitFlush(insn_rec) == insn_rec \o <<NL>>

RECURSIVE ExitOuts(_, _)
ExitOuts(arr, i) ==
    IF i > Len(arr) THEN << >>
    ELSE (IF StrIsSet(arr[i].insn_rec)
          THEN <<Out(ExitFlush(arr[i].insn_rec), "exit", i - 1, 0)>>
          ELSE << >>) \o ExitOuts(arr, i + 1)

PluginExit ==
    /\ Running
    /\ \A c \in Cores : pc[c] = "idle"
    /\ exited' = TRUE
    /\ cpus' = [i \in 1..num_cpus |->
                  IF StrIsSet(cpus[i].insn_rec)
                  THEN [cpus[i] EXCEPT !.insn_rec = ExitFlush(@)]
                  ELSE cpus[i]]
    /\ outs' = outs \o ExitOuts(cpus, 1)
    /\ UNCHANGED <<num_cpus, online, pc, stale, ttbr, hist, looks, halted,
                   inst, reads>>

\* what the engine can answer to the calls the callback of core c makes:
\* a call that is not made gets one placeholder answer
Lists1(c) ==
    IF pc[c] = "held" /\ PendingIsMsr(cpus[c + 1].insn_rec)
    THEN RegLists ELSE {<< >>}
Reads1(c) ==
    IF pc[c] = "held" /\ PendingIsMsr(cpus[c + 1].insn_rec)
    THEN ReadResults ELSE {RegSize}
Lists3(udata) == IF udata[1] = "blr" THEN RegLists ELSE {<< >>}
Reads3(udata) == IF udata[1] = "blr" THEN ReadResults ELSE {RegSize}

Callback(c, udata, dies) ==
    \E rl1 \in Lists1(c), rs1 \in Reads1(c),
       rl3 \in Lists3(udata), rs3 \in Reads3(udata) :
          InsnExec(c, udata, rl1, rs1, rl3, rs3, dies)

\* ------------------------------------------------------------------ Next
Next ==
    \/ \E i \in Cores, moved \in BOOLEAN : VcpuInit(i, moved)
    \/ \E c \in Cores : GetCpu(c)
    \/ \E c \in Cores, udata \in DisasSet, dies \in BOOLEAN :
          Callback(c, udata, dies)
    \/ PluginExit

Spec == Init /\ [][Next]_vars

\* ===================================================================
\* Installation (SpecInstall)
\* ===================================================================
\* An option is its text cut at every "=": "binary=on" is <<"binary", "on">>,
\* "binary" is <<"binary">>.
MaxArgs == 2

OptionSet ==
    {<<"binary", "on">>, <<"binary", "off">>, <<"binary", "maybe">>,
     <<"binary">>, <<"trace", "on">>}

ArgvSet == UNION {[1..n -> OptionSet] : n \in 0..MaxArgs}

\* qemu_plugin_bool_parse(name, value, &ret): the words it accepts; a
\* missing value (NULL) is refused
BoolTrue == {"on", "yes", "true"}
BoolFalse == {"off", "no", "false"}

\* an option qemu_plugin_install must refuse: a key other than binary, or
\* a value that is not a boolean word
Malformed(opt) ==
    \/ opt[1] # "binary"
    \/ Len(opt) # 2
    \/ opt[2] \notin BoolTrue \cup BoolFalse

\* install_option with an unknown key skipped in place of refused
install_option_lenient(opt, st) ==
    IF opt[1] = "binary"
    THEN IF Len(opt) = 2 /\ opt[2] \in BoolTrue \cup BoolFalse
         THEN [st EXCEPT !.args = Tail(@), !.fmt_bin = opt[2] \in BoolTrue]
         ELSE [st EXCEPT !.phase = "returned", !.ret = -1]
    ELSE [st EXCEPT !.args = Tail(@)]

\* lines 298-310: one turn of the option loop on g_strsplit(opt, "=", 2)
install_option(opt, st) ==
    IF opt[1] = "binary"
    THEN IF Len(opt) = 2 /\ opt[2] \in BoolTrue \cup BoolFalse
         THEN [st EXCEPT !.args = Tail(@), !.fmt_bin = opt[2] \in BoolTrue]
         ELSE [st EXCEPT !.phase = "returned", !.ret = -1]
    ELSE [st EXCEPT !.phase = "returned", !.ret = -1]

\* the state qemu_plugin_install starts in for argv
Installing(argv) ==
    [args |-> argv, phase |-> "parsing", ret |-> 0, reg |-> {},
     fmt_bin |-> FALSE, bad |-> \E i \in 1..Len(argv) : Malformed(argv[i])]

InitInstall ==
    /\ cpus = << >>
    /\ num_cpus = 0
    /\ online = {}
    /\ pc = [c \in Cores |-> "idle"]
    /\ stale = [c \in Cores |-> FALSE]
    /\ ttbr = [c \in Cores |-> 0]
    /\ hist = [c \in Cores |-> << >>]
    /\ outs = << >>
    /\ looks = [c \in Cores |-> << >>]
    /\ halted = FALSE
    /\ exited = FALSE
    /\ inst \in {Installing(argv) : argv \in ArgvSet}
    /\ reads = << >>

\* lines 297-311
InstallOption ==
    /\ inst.phase = "parsing"
    /\ inst.args # << >>
    /\ inst' = install_option(Head(inst.args), inst)
    /\ UNCHANGED <<cpus, num_cpus, online, pc, stale, ttbr, hist, outs,
                   looks, halted, exited, reads>>

\* lines 313-317
InstallRegister ==
    /\ inst.phase = "parsing"
    /\ inst.args = << >>
    /\ inst' = [inst EXCEPT !.reg = AllCallbacks, !.phase = "returned",
                            !.ret = 0]
    /\ UNCHANGED <<cpus, num_cpus, online, pc, stale, ttbr, hist, outs,
                   looks, halted, exited, reads>>

\* the engine calls only what was registered
OnVcpuInit ==
    /\ "vcpu_init" \in inst.reg
    /\ \E i \in Cores, moved \in BOOLEAN : VcpuInit(i, moved)

OnInsnExec ==
    /\ "vcpu_tb_trans" \in inst.reg
    /\ \/ \E c \in Cores : GetCpu(c)
       \/ \E c \in Cores, udata \in DisasSet, dies \in BOOLEAN :
             Callback(c, udata, dies)

OnExit ==
    /\ "atexit" \in inst.reg
    /\ PluginExit

NextInstall ==
    \/ InstallOption
    \/ InstallRegister
    \/ OnVcpuInit
    \/ OnInsnExec
    \/ OnExit

SpecInstall == InitInstall /\ [][NextInstall]_vars

\* ===================================================================
\* Register reads that can fail (SpecFault)
\* ===================================================================
\* qemu_plugin_read_register returns the number of bytes it appended to
\* the buffer, or -1 and an untouched buffer when the read fails
ReadFaults == {RegSize, -1}

Reads1Fault(c) ==
    IF pc[c] = "held" /\ PendingIsMsr(cpus[c + 1].insn_rec)
    THEN ReadFaults ELSE {RegSize}
Reads3Fault(udata) == IF udata[1] = "blr" THEN ReadFaults ELSE {RegSize}

CallbackFault(c, udata, dies) ==
    \E rl1 \in Lists1(c), rs1 \in Reads1Fault(c),
       rl3 \in Lists3(udata), rs3 \in Reads3Fault(udata) :
          InsnExec(c, udata, rl1, rs1, rl3, rs3, dies)

NextFault ==
    \/ \E i \in Cores, moved \in BOOLEAN : VcpuInit(i, moved)
    \/ \E c \in Cores : GetCpu(c)
    \/ \E c \in Cores, udata \in DisasSet, dies \in BOOLEAN :
          CallbackFault(c, udata, dies)
    \/ PluginExit

SpecFault == Init /\ [][NextFault]_vars

\* ===================================================================
\* The renderer on its own (SpecRender)
\* ===================================================================
\* read_register applied to registers of several byte lengths: the raw
\* read of a register of size bytes appends its size low-order bytes in
\* storage order and returns size
MaxRenders == 2

RenderNames == {"x3", "TTBR0_EL1"}
RenderValues == {0, 2571, XVal}
RenderSizes == {1, 2, 4, RegSize}
RenderRecords == {<< >>, <<CoreTok(0), CtxTok(1), "blr", "x3">>}

Render(name, value, size, record) ==
    /\ Len(reads) < MaxRenders
    /\ reads' = Append(reads, [name |-> name, value |-> value, size |-> size])
    /\ outs' = Append(outs, Out(read_register(name, value, size, record),
                                "render", 0, Len(reads) + 1))
    /\ UNCHANGED <<cpus, num_cpus, online, pc, stale, ttbr, hist, looks,
                   halted, exited, inst>>

NextRender ==
    \E name \in RenderNames, value \in RenderValues, size \in RenderSizes,
       record \in RenderRecords : Render(name, value, size, record)

SpecRender == Init /\ [][NextRender]_vars

\* ===================================================================
\* The registry under its lock, statement by statement (SpecLock)
\* ===================================================================
\* Every core runs on its own thread: vcpu_init(c) once, then callbacks,
\* each a get_cpu(c) and then the body that uses the pointer it returned
\* ("held").  pc[c] is the statement the thread is about to execute;
\* cpus_lock is held by the threads whose pc is inside a section.
WriterSection == {"w_locked", "w_loop", "w_index", "w_rec", "w_inc", "w_unlock"}
ReaderSection == {"r_locked", "r_addr", "r_unlock"}

WriterHeld == \E t \in Cores : pc[t] \in WriterSection
ReadersHeld == \E t \in Cores : pc[t] \in ReaderSection

\* a slot of the block g_realloc_n returned that nothing has written yet
Uninit == [insn_rec |-> <<"?">>, index |-> -1]

\* g_rw_lock_writer_lock returns once nobody holds the lock
writer_lock_free(c) == ~WriterHeld /\ ~ReadersHeld

\* get_cpu without the lock: the reader never waits
reader_lock_ignored(c) == TRUE

\* g_rw_lock_reader_lock returns once no writer holds the lock
reader_lock_free(c) == ~WriterHeld

\* line 253
WriterLock(c) ==
    /\ ~halted
    /\ c \notin online
    /\ pc[c] = "idle"
    /\ writer_lock_free(c)
    /\ pc' = [pc EXCEPT ![c] = "w_locked"]
    /\ UNCHANGED <<cpus, num_cpus, online, stale, ttbr, hist, outs, looks,
                   halted, exited, inst, reads>>

\* lines 255-256: the test and the g_realloc_n to vcpu_index + 1 slots,
\* which may hand back the same block or move it (moved)
WriterRealloc(c, moved) ==
    /\ pc[c] = "w_locked"
    /\ IF c >= num_cpus
       THEN /\ cpus' = cpus \o [k \in 1..(c + 1 - Len(cpus)) |-> Uninit]
            /\ pc' = [pc EXCEPT ![c] = "w_loop"]
            /\ stale' = [t \in Cores |-> stale[t] \/ (moved /\ pc[t] = "held")]
       ELSE /\ ~moved
            /\ pc' = [pc EXCEPT ![c] = "w_unlock"]
            /\ UNCHANGED <<cpus, stale>>
    /\ UNCHANGED <<num_cpus, online, ttbr, hist, outs, looks,
                   halted, exited, inst, reads>>

\* line 257: while (vcpu_index >= num_cpus)
WriterLoopTest(c) ==
    /\ pc[c] = "w_loop"
    /\ pc' = [pc EXCEPT ![c] = IF c >= num_cpus THEN "w_index" ELSE "w_unlock"]
    /\ UNCHANGED <<cpus, num_cpus, online, stale, ttbr, hist, outs, looks,
                   halted, exited, inst, reads>>

\* line 258: cpus[num_cpus].index = vcpu_index
WriterSetIndex(c) ==
    /\ pc[c] = "w_index"
    /\ cpus' = [cpus EXCEPT ![num_cpus + 1].index = c]
    /\ pc' = [pc EXCEPT ![c] = "w_rec"]
    /\ UNCHANGED <<num_cpus, online, stale, ttbr, hist, outs, looks,
                   halted, exited, inst, reads>>

\* line 259: cpus[num_cpus].insn_rec = g_string_new(NULL)
WriterSetRec(c) ==
    /\ pc[c] = "w_rec"
    /\ cpus' = [cpus EXCEPT ![num_cpus + 1].insn_rec = << >>]
    /\ pc' = [pc EXCEPT ![c] = "w_inc"]
    /\ UNCHANGED <<num_cpus, online, stale, ttbr, hist, outs, looks,
                   halted, exited, inst, reads>>

\* line 260: num_cpus++
WriterInc(c) ==
    /\ pc[c] = "w_inc"
    /\ num_cpus' = num_cpus + 1
    /\ pc' = [pc EXCEPT ![c] = "w_loop"]
    /\ UNCHANGED <<cpus, online, stale, ttbr, hist, outs, looks,
                   halted, exited, inst, reads>>

\* line 264: the core is registered once vcpu_init has returned
WriterUnlock(c) ==
    /\ pc[c] = "w_unlock"
    /\ pc' = [pc EXCEPT ![c] = "idle"]
    /\ online' = online \cup {c}
    /\ UNCHANGED <<cpus, num_cpus, stale, ttbr, hist, outs, looks,
                   halted, exited, inst, reads>>

\* line 44: a lookup of a registered index
ReaderLock(c) ==
    /\ ~halted
    /\ c \in online
    /\ pc[c] = "idle"
    /\ reader_lock_free(c)
    /\ pc' = [pc EXCEPT ![c] = "r_locked"]
    /\ UNCHANGED <<cpus, num_cpus, online, stale, ttbr, hist, outs, looks,
                   halted, exited, inst, reads>>

\* line 46: g_assert(index < num_cpus)
ReaderAssert(c) ==
    /\ pc[c] = "r_locked"
    /\ IF c < num_cpus
       THEN /\ pc' = [pc EXCEPT ![c] = "r_addr"]
            /\ UNCHANGED halted
       ELSE /\ halted' = TRUE
            /\ pc' = [pc EXCEPT ![c] = "idle"]
    /\ UNCHANGED <<cpus, num_cpus, online, stale, ttbr, hist, outs, looks,
                   exited, inst, reads>>

\* line 47: cpu = &cpus[index]
ReaderAddr(c) ==
    /\ pc[c] = "r_addr"
    /\ pc' = [pc EXCEPT ![c] = "r_unlock"]
    /\ UNCHANGED <<cpus, num_cpus, online, stale, ttbr, hist, outs, looks,
                   halted, exited, inst, reads>>

\* lines 49-51: the lock is dropped and the pointer returned
ReaderUnlock(c) ==
    /\ pc[c] = "r_unlock"
    /\ pc' = [pc EXCEPT ![c] = "held"]
    /\ stale' = [stale EXCEPT ![c] = FALSE]
    /\ UNCHANGED <<cpus, num_cpus, online, ttbr, hist, outs, looks,
                   halted, exited, inst, reads>>

\* lines 118-188: the callback body runs with the pointer and returns
CallbackReturn(c) ==
    /\ pc[c] = "held"
    /\ pc' = [pc EXCEPT ![c] = "idle"]
    /\ UNCHANGED <<cpus, num_cpus, online, stale, ttbr, hist, outs, looks,
                   halted, exited, inst, reads>>

NextLock ==
    \/ \E c \in Cores : WriterLock(c)
    \/ \E c \in Cores, moved \in BOOLEAN : WriterRealloc(c, moved)
    \/ \E c \in Cores : WriterLoopTest(c)
    \/ \E c \in Cores : WriterSetIndex(c)
    \/ \E c \in Cores : WriterSetRec(c)
    \/ \E c \in Cores : WriterInc(c)
    \/ \E c \in Cores : WriterUnlock(c)
    \/ \E c \in Cores : ReaderLock(c)
    \/ \E c \in Cores : ReaderAssert(c)
    \/ \E c \in Cores : ReaderAddr(c)
    \/ \E c \in Cores : ReaderUnlock(c)
    \/ \E c \in Cores : CallbackReturn(c)

SpecLock == Init /\ [][NextLock]_vars

\* ===================================================================
\* Properties
\* ===================================================================
RegNames == {"TTBR0_EL1", "x3"}

\* the record carries a ", <name> -> 0x..." segment
HasRegSeg(str) == \E i \in 1..Len(str), r \in RegNames : str[i] = NameTok(r)

\* first word of the disassembly of the n-th instruction executed on core c
KindOf(c, n) == hist[c][n][1]

\* positions in outs of the records of instruction n of core c
EntriesOf(c, n) ==
    {i \in 1..Len(outs) : outs[i].core = c /\ RecOrd(outs[i].str) = n}

\* the record of instruction n of core c as Step 2 seeds it
Prefix(c, n) == Step2(c, n, hist[c][n])

\* text of a 64-bit value as read_register renders it
HexOfs ==
    [v \in (0..MaxInsns) \cup {XVal} |-> HexLoop(RegBytes(v), RegSize - 1)]
HexOf(v) == HexOfs[v]

\* C1: a CPU pointer obtained from get_cpu is never dereferenced after a
\* vcpu_init on another thread has moved the array (no use of a freed
\* slot is reachable).
C1_NoStaleDereference ==
    \A c \in Cores : pc[c] = "held" => ~stale[c]

\* C2: once the run has ended with plugin_exit, every executed direct bl
\* has exactly one record in the output, emitted by the callback that
\* observed it, and that record has no register segment.
C2_DirectBlExactlyOnce ==
    exited =>
        \A c \in Cores : \A n \in 1..Len(hist[c]) :
            KindOf(c, n) = "bl" =>
                /\ Cardinality(EntriesOf(c, n)) = 1
                /\ \A i \in EntriesOf(c, n) :
                      /\ outs[i].by = "cb"
                      /\ outs[i].at = n
                      /\ ~HasRegSeg(outs[i].str)

\* the TTBR0_EL1 lookup callback k of core c made for the record of
\* instruction n found the register
Resolved(c, n, k) ==
    \E i \in 1..Len(looks[c]) :
        /\ looks[c][i].at = k
        /\ looks[c][i].n = n
        /\ looks[c][i].pat = "TTBR0_EL1"
        /\ looks[c][i].found

\* callback k of core c emitted the record of the msr n with TTBR0_EL1 = v
EmittedWith(c, n, k, v) ==
    \E i \in 1..Len(outs) :
        /\ outs[i].by = "cb" /\ outs[i].core = c /\ outs[i].at = k
        /\ outs[i].str = Prefix(c, n) \o <<NameTok("TTBR0_EL1"), HexOf(v), NL>>

\* two msr in a row on core c: instructions n and n+1
TwoSwitches(c, n) ==
    /\ n + 1 <= Len(hist[c])
    /\ KindOf(c, n) = "msr"
    /\ KindOf(c, n + 1) = "msr"

RECURSIVE LastSwitch(_, _)
LastSwitch(c, k) ==
    IF k = 0 THEN 0
    ELSE IF KindOf(c, k) = "msr" THEN k ELSE LastSwitch(c, k - 1)

\* C4: a record of an msr S is never emitted by S's own callback; a
\* callback that emits it is a later one of the same core and the record
\* then carries TTBR0_EL1 as it is at that callback, after S retired (for
\* the core's next interesting instruction: the value S wrote), never the
\* value from before S; a record of S without that segment comes from
\* plugin_exit only.
C4_SwitchValueReadAfterRetire ==
    \A i \in 1..Len(outs) :
        LET e == outs[i]
            n == RecOrd(e.str)
        IN (n >= 1 /\ Strstr(e.str, "msr")) =>
             /\ ~(e.by = "cb" /\ e.at = n)
             /\ e.by = "cb" =>
                   /\ e.at > n
                   /\ e.at <= Len(hist[e.core])
                   /\ KindOf(e.core, n) = "msr"
                   /\ e.str = Prefix(e.core, n) \o
                        <<NameTok("TTBR0_EL1"),
                          HexOf(LastSwitch(e.core, e.at - 1)), NL>>
                   /\ LastSwitch(e.core, e.at - 1) >= n
                   /\ HexOf(LastSwitch(e.core, e.at - 1))
                         # HexOf(LastSwitch(e.core, n - 1))
                   /\ e.at = n + 1 => EmittedWith(e.core, n, n + 1, n)
             /\ e.by = "exit" => ~HasRegSeg(e.str)

C4_Witness ==
    \E c \in Cores :
        /\ Len(hist[c]) >= 3
        /\ KindOf(c, 1) = "msr" /\ KindOf(c, 2) = "msr" /\ KindOf(c, 3) # "msr"
        /\ EmittedWith(c, 2, 3, 2)

\* the failed lookups of core c
Failed(c) == {i \in 1..Len(looks[c]) : ~looks[c][i].found}

\* C5: a record whose register lookup failed is never emitted: not by any
\* callback and not by plugin_exit.
C5_FailedRecordNeverEmitted ==
    \A c \in Cores : \A i \in Failed(c) : EntriesOf(c, looks[c][i].n) = {}

\* C6: when the TTBR0_EL1 lookup for the pending record fails in callback
\* k, the callback still stores instruction k as the pending record and,
\* if k is a direct bl, emits it.
C6_FailureDoesNotStopProcessing ==
    \A c \in Cores : \A i \in Failed(c) :
        LET k == looks[c][i].at IN
        (looks[c][i].pat = "TTBR0_EL1" /\ k <= Len(hist[c])) =>
            /\ (Len(hist[c]) = k /\ pc[c] = "idle")
                  => RecOrd(cpus[c + 1].insn_rec) = k
            /\ KindOf(c, k) = "bl" =>
                  \E j \in EntriesOf(c, k) : outs[j].by = "cb" /\ outs[j].at = k

\* C7: after a lookup failed for a record, no later callback of the core
\* makes another lookup for that record.
C7_NoRetry ==
    \A c \in Cores : \A i \in Failed(c) :
        \A j \in (i + 1)..Len(looks[c]) : looks[c][j].n # looks[c][i].n

\* callback k of core c returned at line 139, before storing instruction k
CutShort(c, k) ==
    \E i \in Failed(c) : looks[c][i].at = k /\ looks[c][i].pat = "TTBR0_EL1"

\* plugin_exit emitted, for core c, the unresolved record of the msr m:
\* its prefix and a newline
FlushedSwitch(c, m) ==
    /\ m \in 1..Len(hist[c])
    /\ KindOf(c, m) = "msr"
    /\ \E i \in 1..Len(outs) :
          /\ outs[i].by = "exit" /\ outs[i].core = c
          /\ outs[i].str = Prefix(c, m) \o <<NL>>

\* C8: when plugin_exit has run and the last interesting instruction of a
\* core was an msr, plugin_exit has emitted that core's pending msr record
\* as prefix plus newline without a register segment: the record of that
\* last msr, or, if its callback returned at line 139, of the msr that was
\* still pending then.
C8_ExitFlushesPendingSwitch ==
    exited =>
        \A c \in Cores :
            LET last == Len(hist[c]) IN
            (last >= 1 /\ KindOf(c, last) = "msr") =>
                /\ \E m \in 1..last : FlushedSwitch(c, m)
                /\ ~CutShort(c, last) => FlushedSwitch(c, last)
                /\ \A i \in 1..Len(outs) :
                      (outs[i].by = "exit" /\ outs[i].core = c)
                          => ~HasRegSeg(outs[i].str)

C8_Witness ==
    /\ exited
    /\ \E c \in Cores :
          /\ Len(hist[c]) = 2
          /\ KindOf(c, 2) = "msr"
          /\ FlushedSwitch(c, 2)

\* C9: plugin_exit emits nothing for a core whose pending record is empty:
\* every string it hands to the sink holds a record before the newline.
C9_ExitSkipsEmptyRecords ==
    \A i \in 1..Len(outs) : outs[i].by = "exit" => outs[i].str # <<NL>>

\* C10: the records of one core appear in the output in the order its
\* instructions retired: a record of an earlier instruction never comes
\* after a record of a later one.
C10_PerCoreOrder ==
    \A i \in 1..Len(outs) : \A j \in (i + 1)..Len(outs) :
        (/\ outs[i].core = outs[j].core
         /\ RecOrd(outs[i].str) >= 1
         /\ RecOrd(outs[j].str) >= 1)
            => RecOrd(outs[i].str) <= RecOrd(outs[j].str)

C10_Witness ==
    \E i \in 1..Len(outs) : \E j \in (i + 1)..Len(outs) :
        /\ outs[i].core = outs[j].core
        /\ outs[i].by = "cb" /\ outs[j].by = "cb" /\ outs[i].at = outs[j].at
        /\ RecOrd(outs[i].str) >= 1
        /\ RecOrd(outs[i].str) < RecOrd(outs[j].str)
        /\ \E k \in 1..Len(outs) : outs[k].core # outs[i].core /\ outs[k].by = "cb"

\* the blr operand lookups of core c: callback k looked up pattern pat
BlrLooks(c) ==
    {i \in 1..Len(looks[c]) :
        looks[c][i].at = looks[c][i].n /\ KindOf(c, looks[c][i].at) = "blr"}

\* callback k of core c emitted the record of the blr it observed with a
\* segment for register name holding XVal
BlrEmitted(c, k, name) ==
    \E i \in 1..Len(outs) :
        /\ outs[i].by = "cb" /\ outs[i].core = c /\ outs[i].at = k
        /\ outs[i].str = Prefix(c, k) \o <<NameTok(name), HexOf(XVal), NL>>

\* C11: the operand register a blr callback looks up is the last
\* whitespace-delimited token of the disassembly, and when that register
\* is found the callback that observed the blr emits its record, whose
\* register segment names that token and carries the value read in that
\* callback.
C11_BlrEmittedInItsCallback ==
    \A c \in Cores : \A i \in BlrLooks(c) :
        LET k == looks[c][i].at
            operand == hist[c][k][Len(hist[c][k])]
        IN /\ looks[c][i].pat = operand
           /\ looks[c][i].found => BlrEmitted(c, k, operand)

C11_Witness ==
    \E c \in Cores : \E i \in BlrLooks(c) :
        /\ looks[c][i].found
        /\ BlrEmitted(c, looks[c][i].at, "x3")

\* the slot has been written by lines 258-259
Initialised(slot) == slot.index >= 0 /\ slot.insn_rec # Uninit.insn_rec

\* the array is between g_realloc_n and the end of the loop of line 257
MidResize ==
    \/ Len(cpus) # num_cpus
    \/ \E k \in 1..Len(cpus) : ~Initialised(cpus[k])

\* C12: however the vcpu_init calls of new cores interleave with the
\* get_cpu calls of registered cores, a get_cpu of a registered index
\* never fails its assertion, and while it is inside its locked section
\* the index is inside the array, the array is not being resized and the
\* slot has been initialised.
C12_LookupsSafeDuringGrowth ==
    /\ ~halted
    /\ \A c \in Cores :
          pc[c] \in ReaderSection =>
              /\ c \in online
              /\ c < num_cpus
              /\ c + 1 <= Len(cpus)
              /\ ~MidResize
              /\ Initialised(cpus[c + 1])

\* a registered core is inside a lookup of its slot while a higher index
\* is registered as well
C12_Witness ==
    \E c \in Cores, d \in Cores :
        /\ pc[c] = "r_addr"
        /\ c < d
        /\ d \in online
        /\ cpus[d + 1].index = d

\* the record has a register segment whose value text is empty: the read
\* it was built from returned -1
FromFailedRead(str) ==
    \E j \in 1..(Len(str) - 1), r \in RegNames :
        str[j] = NameTok(r) /\ str[j + 1] = ""

\* C13: a failed raw register read is fatal: no record built from a
\* failed read is ever emitted.
C13_FailedReadIsFatal ==
    \A i \in 1..Len(outs) : ~FromFailedRead(outs[i].str)

\* C14: when argv holds a malformed option (a key other than binary, or
\* a value that does not parse as a boolean), qemu_plugin_install returns
\* -1 without having registered the vcpu_init, translation or exit
\* callback: no core is ever registered and nothing is ever emitted.
C14_MalformedOptionFailsInstall ==
    inst.bad =>
        /\ inst.reg = {}
        /\ inst.phase = "returned" => inst.ret = -1
        /\ online = {} /\ num_cpus = 0
        /\ \A c \in Cores : hist[c] = << >>
        /\ outs = << >>

\* installation has refused an argv whose first option was accepted
C14_Witness ==
    /\ inst.bad
    /\ inst.phase = "returned"
    /\ inst.ret = -1
    /\ inst.fmt_bin

\* the record is the seeded prefix of one of the instructions core c has
\* executed
IsPrefixOf(c, str) == \E n \in 1..Len(hist[c]) : str = Prefix(c, n)

\* the text has been passed to qemu_plugin_outs
Sent(str) == \E i \in 1..Len(outs) : outs[i].str = str

\* C15: between two callbacks of a core (and before plugin_exit) its
\* pending record is empty or a seeded prefix that has not been emitted;
\* in particular it is empty once a callback has emitted the record of
\* the bl or blr it observed, and it is never a text that has already
\* been passed to qemu_plugin_outs.
C15_PendingEmptyAfterEmit ==
    \A c \in online :
        (pc[c] = "idle" /\ ~exited) =>
            \/ cpus[c + 1].insn_rec = << >>
            \/ /\ IsPrefixOf(c, cpus[c + 1].insn_rec)
               /\ ~Sent(cpus[c + 1].insn_rec)

\* the step is the return of a callback of core c
CallbackOf(c) == hist'[c] # hist[c]

\* C16: a callback of core c leaves the pending record of every other
\* registered core as it was, and what it emits is a record seeded for
\* core c.
C16_OtherCoresUntouched ==
    [][\A c \in Cores :
          CallbackOf(c) =>
              /\ \A d \in 0..(num_cpus - 1) :
                    d # c => cpus'[d + 1].insn_rec = cpus[d + 1].insn_rec
              /\ \A i \in (Len(outs) + 1)..Len(outs') :
                    RecCore(outs'[i].str) = c]_vars

\* a callback of one core has emitted a record while another registered
\* core has a pending record of its own
C16_Witness ==
    \E c \in Cores, d \in Cores :
        /\ c # d
        /\ ~exited
        /\ \E i \in 1..Len(outs) : outs[i].by = "cb" /\ outs[i].core = c
        /\ d \in online
        /\ cpus[d + 1].insn_rec # << >>
        /\ RecCore(cpus[d + 1].insn_rec) = d
        /\ cpus[c + 1].insn_rec # << >>
        /\ RecCore(cpus[c + 1].insn_rec) = c

\* C17: the registry only grows.  A vcpu_init(i) leaves every index 0..i
\* addressable, gives every slot it adds an empty pending record, keeps
\* the slots that were there as they were, and changes nothing when i
\* was addressable already.
C17_RegistryOnlyGrows ==
    [][/\ num_cpus' >= num_cpus
       /\ Len(cpus') = num_cpus'
       /\ \A i \in online' \ online :
             /\ i < num_cpus'
             /\ \A k \in 1..num_cpus : cpus'[k] = cpus[k]
             /\ \A k \in (num_cpus + 1)..num_cpus' :
                   cpus'[k].insn_rec = << >>
             /\ i < num_cpus => (num_cpus' = num_cpus /\ cpus' = cpus)]_vars

\* every core is registered, the first slot has kept a pending record and
\* the last slot is still empty
C17_Witness ==
    /\ online = Cores
    /\ num_cpus = MaxCore + 1
    /\ cpus[1].insn_rec # << >>
    /\ cpus[num_cpus].insn_rec = << >>

\* C18: the slot at position i of the registry has index field i,
\* whatever the order in which the cores came online.
C18_IndexFieldIsPosition ==
    \A k \in 1..Len(cpus) : cpus[k].index = k - 1

\* every get_reg_desc call of the run found its register
AllLookupsFound ==
    \A c \in Cores : \A i \in 1..Len(looks[c]) : looks[c][i].found

\* C19: in a run in which every register lookup succeeded and
\* plugin_exit has run, every executed msr has exactly one record in the
\* output: when another interesting instruction followed on the core, the
\* record with the TTBR0_EL1 segment emitted by that next callback;
\* otherwise the record without segment emitted by plugin_exit.
C19_EverySwitchEmittedOnce ==
    (exited /\ AllLookupsFound) =>
        \A c \in Cores : \A n \in 1..Len(hist[c]) :
            KindOf(c, n) = "msr" =>
                /\ Cardinality(EntriesOf(c, n)) = 1
                /\ IF n < Len(hist[c])
                   THEN EmittedWith(c, n, n + 1, n)
                   ELSE FlushedSwitch(c, n)

\* a finished run with an msr that was followed by a bl and an msr that
\* was the core's last instruction
C19_Witness ==
    /\ exited
    /\ AllLookupsFound
    /\ \E c \in Cores :
          /\ Len(hist[c]) = 3
          /\ KindOf(c, 1) = "msr" /\ KindOf(c, 2) = "bl" /\ KindOf(c, 3) = "msr"
          /\ EmittedWith(c, 1, 2, 1)
          /\ FlushedSwitch(c, 3)

\* number of the most significant non-zero byte of the size-byte value v
\* (-1: every byte is zero)
TopByte(v, size) ==
    IF \A k \in 0..(size - 1) : RegBytes(v)[k + 1] = 0
    THEN -1
    ELSE CHOOSE k \in 0..(size - 1) :
            /\ RegBytes(v)[k + 1] # 0
            /\ \A j \in (k + 1)..(size - 1) : RegBytes(v)[j + 1] = 0

\* the value text with the leading zero bytes left out
TrimmedHex(v, size) == HexLoop(RegBytes(v), TopByte(v, size))

\* the value text of the rendering: two digits for every byte, most
\* significant byte first
FullHex(v, size) ==
    CASE v = 0 /\ size = 1 -> "00"
      [] v = 0 /\ size = 2 -> "0000"
      [] v = 0 /\ size = 4 -> "00000000"
      [] v = 0 /\ size = 8 -> "0000000000000000"
      [] v = 2571 /\ size = 1 -> "0b"
      [] v = 2571 /\ size = 2 -> "0a0b"
      [] v = 2571 /\ size = 4 -> "00000a0b"
      [] v = 2571 /\ size = 8 -> "0000000000000a0b"
      [] v = XVal /\ size = 1 -> "c0"
      [] v = XVal /\ size = 2 -> "05c0"
      [] v = XVal /\ size = 4 -> "004005c0"
      [] v = XVal /\ size = 8 -> "00000000004005c0"

\* rendering i appended the segment with value text to some record
Rendered(i, text) ==
    \E record \in RenderRecords :
        outs[i].str = record \o <<NameTok(reads[i].name), text, NL>>

\* C20 as stated: every rendering is one raw read and appends
\* ", <name> -> 0x", the bytes most significant first with the leading
\* zero bytes trimmed, and a newline; x3 holding 00 00 00 00 00 40 05 c0
\* gives ", x3 -> 0x40005c0".
C20_LeadingZeroBytesTrimmed ==
    /\ Len(outs) = Len(reads)
    /\ \A i \in 1..Len(reads) :
          /\ Rendered(i, TrimmedHex(reads[i].value, reads[i].size))
          /\ (reads[i].name = "x3" /\ reads[i].value = XVal
                 /\ reads[i].size = RegSize) => Rendered(i, "40005c0")

\* C20 amended: every rendering is one raw read and appends
\* ", <name> -> 0x", then every byte of the register as two hex digits,
\* most significant byte first and leading zero bytes included, then a
\* newline; x3 holding 00 00 00 00 00 40 05 c0 gives
\* ", x3 -> 0x00000000004005c0".
C20_EveryByteTwoDigits ==
    /\ Len(outs) = Len(reads)
    /\ \A i \in 1..Len(reads) :
          Rendered(i, FullHex(reads[i].value, reads[i].size))

\* x3 holding 0x4005c0 in 8 bytes has been rendered with its zero bytes
C20_Witness ==
    \E i \in 1..Len(reads) :
        /\ reads[i].name = "x3" /\ reads[i].value = XVal
        /\ reads[i].size = RegSize
        /\ outs[i].str = <<CoreTok(0), CtxTok(1), "blr", "x3",
                           ", x3 -> 0x", "00000000004005c0", "\n">>

====
